---------------------------- MODULE Spec2Model ----------------------------
(***************************************************************************)
(* A model of the OpenVPN multiplexer (src/vpn/muxer.go).                  *)
(*                                                                         *)
(* One caller drives the muxer through its public operations (Handshake,   *)
(* Reset, InitDataWithRemoteKey, Read, Write).  Every action is one        *)
(* blocking step of an operation: the transport or TLS call it makes and   *)
(* the code that follows it up to the next such call.  The peer and the    *)
(* transport are the environment: what a read returns and whether a write  *)
(* succeeds are chosen with \E.                                            *)
(***************************************************************************)
EXTENDS Integers, Sequences, FiniteSets, TLC

\* ------------------------------------------------------------------ bounds
\* Number of public operations the caller invokes in one run.
MaxCalls == 2
\* Number of distinct session ids, key sources and tunnel addresses a peer may send.
NVal == 2
\* Capacity to which the read buffer is explored; the plaintext of a data packet
\* and the destination slice of a Read are explored up to the same length, and
\* so are, in a run that records them, the bytes received in all.
MaxBuf == 2
\* Number of failed transport reads explored within one Read call.
MaxReadErrs == 2
\* Number of openvpn-pings explored within one Read call.
MaxPings == 1
\* Length up to which every packet over FrameBytes is framed.
MaxFrameLen == 3
\* Number of packets each goroutine writes in the concurrent data phase.
MaxSends == 2
\* Largest Count the pinger is run with.
MaxCount == 2
\* Largest packetsSent the loss computation is applied to.
MaxSent == 10

Vals == 1..NVal
Bytes == {1, 2}

VARIABLES
    top,              \* the public operation the caller is in ("none" before the first)
    pc,               \* the next step of that operation, or "done" / "panic"
    err,              \* the operation's result once pc = "done"
    calls,            \* public operations invoked so far
    ev,               \* the protocol events of the current operation, in order
    connClosed,       \* the transport m.conn was closed (by the peer or the network)
    hasActiveKey,     \* session.ActiveKey() finds the slot made at session start
    remoteSessionID,  \* session.RemoteSessionID (0: all zeros, not recorded)
    sidRecorded,      \* RemoteSessionID was recorded from a hard-reset response
    tlsUp,            \* m.tls is set
    remoteKey,        \* the remote keySource of the active key (0: none)
    keysReady,        \* data.SetupKeys succeeded
    tunnel,           \* m.tunnel
    bufReader,        \* m.bufReader
    dst,              \* len(b) of the Read in progress
    lastRead,         \* the bytes the last Read copied into b
    lastIn,           \* what the last handleIncomingPacket of this Read saw
    readErrs,         \* failed transport reads within this Read
    recording,        \* whether this run keeps the three histories below
    unacked,          \* ids of the control packets read and not acknowledged since
    dropped,          \* the transport lost the response Reset is waiting for
    accepted,         \* the plaintexts data.ReadPacket returned, other than pings, in order
    delivered,        \* the bytes Read has returned to the user, in order
    fpc,              \* framing: where the sender and the receiver of a frame are
    fb,               \* framing: the packet handed to toSizeFrame
    framed,           \* framing: the bytes toSizeFrame returned
    unframed,         \* framing: the packet the receiver read back
    rwpc,             \* concurrent Read and Write: where each goroutine is
    wlock,            \* the goroutine inside data.WritePacket, or "none"
    dataPid,          \* the session's next outbound data packet-id
    loc,              \* the packet-id each goroutine took for its packet
    inWrite,          \* the goroutines inside the transport's Write
    wire,             \* the data packets written to the transport, in order
    sends,            \* the packets each goroutine has started to send
    Count,            \* pinger: the number of echo requests asked for
    runI,             \* pinger: i of the loop of Run
    exited,           \* pinger: Run has returned and the process is gone
    mu,               \* pinger: the holder of p.mu, <<>> when free
    spc,              \* pinger: where each sendPayload(s) goroutine is
    cpc,              \* pinger: where each craftAndSendICMP goroutine is
    net,              \* pinger: the echo replies waiting to be read
    cdI,              \* pinger: i of the loop of consumeData
    rpc,              \* pinger: where each reading goroutine is
    stats,            \* pinger: the number of values in the channel p.stats
    colI,             \* pinger: i of the loop of the collecting goroutine
    packetsSent,      \* pinger: p.packetsSent
    packetsRecv,      \* pinger: p.packetsRecv
    ppc,              \* pinger: whether printStats has run, and how it ended
    loss              \* pinger: the loss percentage printStats printed

histVars == <<recording, unacked, dropped, accepted, delivered>>

muxVars == <<top, pc, err, calls, ev, connClosed, hasActiveKey, remoteSessionID,
             sidRecorded, tlsUp, remoteKey, keysReady, tunnel, bufReader, dst,
             lastRead, lastIn, readErrs, histVars>>

frameVars == <<fpc, fb, framed, unframed>>

rwVars == <<rwpc, wlock, dataPid, loc, inWrite, wire, sends>>

pingerVars == <<Count, runI, exited, mu, spc, cpc, net, cdI, rpc, stats, colI,
                packetsSent, packetsRecv, ppc, loss>>

\* What a step of the muxer's single caller leaves alone.
otherVars == <<frameVars, rwVars, pingerVars>>

vars == <<muxVars, frameVars, rwVars, pingerVars>>

sessionVars == <<hasActiveKey, remoteSessionID, sidRecorded, tlsUp, remoteKey,
                 keysReady, tunnel>>
readVars == <<bufReader, dst, lastRead, lastIn, readErrs>>

\* ------------------------------------------------------------------ helpers
\* One protocol event: a packet or message written ("send"), a read ("recv") or
\* a local step ("run"); res is its outcome and v the value a read carried.
Ev(kind, what, res, v) == [k |-> kind, what |-> what, res |-> res, v |-> v]

W(ok) == IF ok THEN "ok" ELSE "err"

Min(a, b) == IF a < b THEN a ELSE b

\* What a transport write may report: success only on an open transport.
WriteOutcomes == IF connClosed THEN {FALSE} ELSE {TRUE, FALSE}

\* Messages the server may send over the TLS channel.
TLSMsgs == [head : {"NUL4", "AUTH_FAILED", "PUSH_REPLY", "OTHER"},
            wellFormed : BOOLEAN, v : Vals]

isControlMessage(m) == m.head = "NUL4"
isBadAuthReply(m) == m.head = "AUTH_FAILED"
isPushReply(m) == m.head = "PUSH_REPLY"

parseRemoteOptions(t, opts) == [t EXCEPT !.opts = opts]

Return(e) == pc' = "done" /\ err' = e

\* The muxer newMuxerFromOptions returns, before any call.
newMuxer ==
    /\ top = "none"
    /\ pc = "done"
    /\ err = "none"
    /\ calls = 0
    /\ ev = <<>>
    /\ connClosed = FALSE
    /\ hasActiveKey = TRUE
    /\ remoteSessionID = 0
    /\ sidRecorded = FALSE
    /\ tlsUp = FALSE
    /\ remoteKey = 0
    /\ keysReady = FALSE
    /\ tunnel = [ip |-> 0, opts |-> 0]
    /\ bufReader = <<>>
    /\ dst = 0
    /\ lastRead = <<>>
    /\ lastIn = "none"
    /\ readErrs = 0
    /\ unacked = {}
    /\ dropped = FALSE
    /\ accepted = <<>>
    /\ delivered = <<>>

\* The two goroutines of the data phase.
Procs == {"Read", "Write"}

\* No frame is being made.
frameOff == fpc = "off" /\ fb = <<>> /\ framed = <<>> /\ unframed = <<>>

\* No goroutine is running besides the caller.
rwOff ==
    /\ rwpc = [p \in Procs |-> "off"]
    /\ wlock = "none"
    /\ dataPid = 0
    /\ loc = [p \in Procs |-> 0]
    /\ inWrite = {}
    /\ wire = <<>>
    /\ sends = [p \in Procs |-> 0]

\* No pinger runs.
pingerOff ==
    /\ Count = 0
    /\ runI = 0
    /\ exited = TRUE
    /\ mu = <<>>
    /\ spc = <<>>
    /\ cpc = <<>>
    /\ net = {}
    /\ cdI = 0
    /\ rpc = <<>>
    /\ stats = 0
    /\ colI = 0
    /\ packetsSent = 0
    /\ packetsRecv = 0
    /\ ppc = "off"
    /\ loss = 0

Init == newMuxer /\ recording = FALSE /\ frameOff /\ rwOff /\ pingerOff

\* The same muxer in a run that keeps the histories unacked, accepted, delivered.
InitRec == newMuxer /\ recording = TRUE /\ frameOff /\ rwOff /\ pingerOff

\* ------------------------------------------------------- the caller's calls
Ops == {"Handshake", "Reset", "InitDataWithRemoteKey", "Read", "Write"}

FirstStep(op) ==
    CASE op = "Handshake" -> "SendHardReset"
      [] op = "Reset" -> "SendHardReset"
      [] op = "InitDataWithRemoteKey" -> "sendControlMessage"
      [] op = "Read" -> "Read"
      [] op = "Write" -> "Write"

\* The caller invokes one of the muxer's public operations once the previous
\* one has returned.
Call ==
    /\ pc = "done"
    /\ calls < MaxCalls
    /\ \E op \in Ops, n \in 1..MaxBuf :
          /\ top' = op
          /\ pc' = FirstStep(op)
          /\ dst' = IF op = "Read" THEN n ELSE 0
    /\ err' = "none"
    /\ calls' = calls + 1
    /\ ev' = <<>>
    /\ lastIn' = "none"
    /\ readErrs' = 0
    /\ lastRead' = <<>>
    /\ dropped' = FALSE
    /\ UNCHANGED otherVars
    /\ UNCHANGED <<connClosed, sessionVars, bufReader, recording, unacked,
                   accepted, delivered>>

\* The peer or the network closes the transport.
ConnClose ==
    /\ ~connClosed
    /\ connClosed' = TRUE
    /\ UNCHANGED otherVars
    /\ UNCHANGED <<top, pc, err, calls, ev, sessionVars, readVars, histVars>>

\* ------------------------------------------------------------------ Reset
\* m.control.SendHardReset(m.conn, m.session): it returns nothing, so Reset
\* goes on to read whether or not the packet reached the transport.
Reset_SendHardReset ==
    /\ pc = "SendHardReset"
    /\ \E ok \in WriteOutcomes :
          ev' = Append(ev, Ev("send", "HARD_RESET_CLIENT", W(ok), 0))
    /\ pc' = "readPacket"
    /\ UNCHANGED otherVars
    /\ UNCHANGED <<top, err, calls, connClosed, sessionVars, readVars, histVars>>

\* The transport loses the server's response to the hard-reset: readPacket stays
\* blocked, and Reset has no timer and no step that sends the hard-reset again.
Reset_responseLost ==
    /\ pc = "readPacket"
    /\ ~connClosed
    /\ ~dropped
    /\ dropped' = TRUE
    /\ UNCHANGED otherVars
    /\ UNCHANGED <<top, pc, err, calls, ev, connClosed, sessionVars, readVars,
                   recording, unacked, accepted, delivered>>

\* What readPacket(m.conn) may return to Reset.
HardResetReplies ==
    IF connClosed THEN {[k |-> "err", valid |-> FALSE, sid |-> 0]}
    ELSE {[k |-> "err", valid |-> FALSE, sid |-> 0]}
         \cup [k : {"pkt"}, valid : BOOLEAN, sid : Vals]

\* A Reset that goes on to the ACK whatever ParseHardReset said.
ParseHardResetResult_AckAlways(valid) == [pc |-> "SendACK", err |-> "none"]

\* Where Reset goes once ParseHardReset has looked at the response: on to the
\* ACK when it was accepted, out with ErrBadHandshake when not.
ParseHardResetResult(valid) ==
    IF valid THEN [pc |-> "SendACK", err |-> "none"]
    ELSE [pc |-> "done", err |-> "ErrBadHandshake"]

\* A Reset that records the session id before it looks at ParseHardReset's error.
NewRemoteSessionID_BeforeCheck(r) == r.sid

\* session.RemoteSessionID after ParseHardReset: assigned once the error check
\* has passed.
NewRemoteSessionID(r) == IF r.valid THEN r.sid ELSE remoteSessionID

\* resp, err := readPacket(m.conn); ParseHardReset(resp); the assignment of
\* session.RemoteSessionID.  The server's hard-reset is taken to carry control
\* packet-id 0 ("we assume id is 0").
Reset_readPacket ==
    /\ pc = "readPacket"
    /\ \E r \in HardResetReplies :
          IF r.k = "err"
          THEN /\ ev' = Append(ev, Ev("recv", "HARD_RESET_SERVER", "err", 0))
               /\ Return("transport")
               /\ UNCHANGED <<remoteSessionID, sidRecorded, unacked>>
          ELSE /\ ev' = Append(ev, Ev("recv", "HARD_RESET_SERVER",
                                      IF r.valid THEN "ok" ELSE "bad", r.sid))
               /\ pc' = ParseHardResetResult(r.valid).pc
               /\ err' = ParseHardResetResult(r.valid).err
               /\ remoteSessionID' = NewRemoteSessionID(r)
               /\ sidRecorded' = (sidRecorded \/ r.valid)
               /\ unacked' = IF recording /\ r.valid THEN unacked \cup {0}
                                                      ELSE unacked
    /\ dropped' = FALSE
    /\ UNCHANGED otherVars
    /\ UNCHANGED <<top, calls, connClosed, hasActiveKey, tlsUp, remoteKey,
                   keysReady, tunnel, readVars, recording, accepted, delivered>>

\* m.control.SendACK(m.conn, m.session, packetID(0)); return nil.  The error
\* SendACK returns is dropped.
Reset_SendACK ==
    /\ pc = "SendACK"
    /\ \E ok \in WriteOutcomes :
          ev' = Append(ev, Ev("send", "ACK_V1", W(ok), 0))
    /\ IF top = "Reset" THEN Return("nil") ELSE (pc' = "TLS" /\ err' = err)
    /\ unacked' = unacked \ {0}
    /\ UNCHANGED otherVars
    /\ UNCHANGED <<top, calls, connClosed, sessionVars, readVars, recording,
                   dropped, accepted, delivered>>

\* -------------------------------------------------------------- Handshake
\* Step 2 of Handshake: initTLS, NewTLSConn and tlsHandshake, which exchanges
\* the TLS records over the control channel; m.tls is set when it finishes.
Handshake_TLS ==
    /\ pc = "TLS"
    /\ \E o \in {"ok", "initTLS", "NewTLSConn", "tlsHandshake"} :
          /\ (o = "ok") => ~connClosed
          /\ CASE o = "initTLS" ->
                    /\ ev' = Append(ev, Ev("run", "TLS", "initTLS", 0))
                    /\ Return("errBadTLSConf")
                    /\ tlsUp' = tlsUp
               [] o = "NewTLSConn" ->
                    /\ ev' = Append(ev, Ev("run", "TLS", "NewTLSConn", 0))
                    /\ Return("ErrBadTLSHandshake")
                    /\ tlsUp' = tlsUp
               [] o = "tlsHandshake" ->
                    /\ ev' = Append(ev, Ev("send", "TLS", "err", 0))
                    /\ Return("ErrBadTLSHandshake")
                    /\ tlsUp' = tlsUp
               [] o = "ok" ->
                    /\ ev' = Append(ev, Ev("send", "TLS", "ok", 0))
                    /\ pc' = "sendControlMessage"
                    /\ err' = err
                    /\ tlsUp' = TRUE
    /\ UNCHANGED otherVars
    /\ UNCHANGED <<top, calls, connClosed, hasActiveKey, remoteSessionID,
                   sidRecorded, remoteKey, keysReady, tunnel, readVars, histVars>>

\* ------------------------------------------------- InitDataWithRemoteKey
\* sendControlMessage: build the message, write it to m.tls.  Writing to a
\* nil m.tls (InitDataWithRemoteKey before any Handshake) panics.
sendControlMessage ==
    /\ pc = "sendControlMessage"
    /\ \E o \in {"ok", "ControlMessage", "Write"} :
          /\ (o = "ok") => ~connClosed
          /\ IF o = "ControlMessage"
             THEN /\ ev' = Append(ev, Ev("run", "CONTROL_MESSAGE", "err", 0))
                  /\ Return("errControlMessage")
             ELSE IF ~tlsUp
             THEN /\ ev' = ev
                  /\ pc' = "panic"
                  /\ err' = err
             ELSE IF o = "Write"
             THEN /\ ev' = Append(ev, Ev("send", "CONTROL_MESSAGE", "err", 0))
                  /\ Return("transport")
             ELSE /\ ev' = Append(ev, Ev("send", "CONTROL_MESSAGE", "ok", 0))
                  /\ pc' = "readAndLoadRemoteKey"
                  /\ err' = err
    /\ UNCHANGED otherVars
    /\ UNCHANGED <<top, calls, connClosed, sessionVars, readVars, histVars>>

\* What m.tls.Read may return: an error, or a message of the server.
TLSReads ==
    IF connClosed THEN {[k |-> "err"]}
    ELSE {[k |-> "err"]} \cup {[k |-> "msg", m |-> m] : m \in TLSMsgs}

\* What readAndLoadRemoteKey makes of the message it read.
readAndLoadRemoteKeyResult(m) ==
    IF ~isControlMessage(m) THEN [res |-> m.head, err |-> "errBadControlMessage"]
    ELSE IF ~m.wellFormed THEN [res |-> "unparsed", err |-> "ErrBadHandshake"]
    ELSE IF ~hasActiveKey THEN [res |-> "nokey", err |-> "ErrBadHandshake"]
    ELSE [res |-> "ok", err |-> "nil"]

\* readAndLoadRemoteKey, and the second ActiveKey() of InitDataWithRemoteKey,
\* which succeeds when the first did.
readAndLoadRemoteKey ==
    /\ pc = "readAndLoadRemoteKey"
    /\ \E r \in TLSReads :
          IF r.k = "err"
          THEN /\ ev' = Append(ev, Ev("recv", "SERVER_CONTROL_MESSAGE", "err", 0))
               /\ Return("transport")
               /\ UNCHANGED <<remoteKey, tunnel>>
          ELSE LET x == readAndLoadRemoteKeyResult(r.m) IN
               /\ ev' = Append(ev, Ev("recv", "SERVER_CONTROL_MESSAGE", x.res, r.m.v))
               /\ IF x.err = "nil"
                  THEN /\ remoteKey' = r.m.v
                       /\ tunnel' = parseRemoteOptions(tunnel, r.m.v)
                       /\ pc' = "SetupKeys"
                       /\ err' = err
                  ELSE /\ Return(x.err)
                       /\ UNCHANGED <<remoteKey, tunnel>>
    /\ UNCHANGED otherVars
    /\ UNCHANGED <<top, calls, connClosed, hasActiveKey, remoteSessionID,
                   sidRecorded, tlsUp, keysReady, readVars, histVars>>

\* An InitDataWithRemoteKey that drops the error of SetupKeys.
SetupKeysResult_IgnoreErr(ok) == [pc |-> "sendPushRequest", err |-> "none"]

\* Where InitDataWithRemoteKey goes after m.data.SetupKeys(key0).
SetupKeysResult(ok) ==
    IF ok THEN [pc |-> "sendPushRequest", err |-> "none"]
    ELSE [pc |-> "done", err |-> "errSetupKeys"]

\* err = m.data.SetupKeys(key0)
InitDataWithRemoteKey_SetupKeys ==
    /\ pc = "SetupKeys"
    /\ \E ok \in BOOLEAN :
          /\ ev' = Append(ev, Ev("run", "SetupKeys", W(ok), 0))
          /\ keysReady' = (keysReady \/ ok)
          /\ pc' = SetupKeysResult(ok).pc
          /\ err' = SetupKeysResult(ok).err
    /\ UNCHANGED otherVars
    /\ UNCHANGED <<top, calls, connClosed, hasActiveKey, remoteSessionID,
                   sidRecorded, tlsUp, remoteKey, tunnel, readVars, histVars>>

\* sendPushRequest: m.tls.Write(m.control.PushRequest())
sendPushRequest ==
    /\ pc = "sendPushRequest"
    /\ \E ok \in WriteOutcomes :
          /\ ev' = Append(ev, Ev("send", "PUSH_REQUEST", W(ok), 0))
          /\ IF ok THEN (pc' = "readPushReply" /\ err' = err)
                   ELSE Return("transport")
    /\ UNCHANGED otherVars
    /\ UNCHANGED <<top, calls, connClosed, sessionVars, readVars, histVars>>

\* The tunnel IP of a push reply ("" when it names none).
ReadPushResponse(m) == IF m.wellFormed THEN m.v ELSE 0

\* A readPushReply that lacks the isPushReply check.
readPushReplyResult_NoReplyCheck(m) ==
    IF isBadAuthReply(m) THEN [res |-> m.head, err |-> "errBadAuth"]
    ELSE [res |-> IF isPushReply(m) THEN "ok" ELSE m.head, err |-> "nil"]

\* What readPushReply makes of the message it read.
readPushReplyResult(m) ==
    IF isBadAuthReply(m) THEN [res |-> m.head, err |-> "errBadAuth"]
    ELSE IF ~isPushReply(m) THEN [res |-> m.head, err |-> "errBadServerReply"]
    ELSE [res |-> "ok", err |-> "nil"]

readPushReply ==
    /\ pc = "readPushReply"
    /\ \E r \in TLSReads :
          IF r.k = "err"
          THEN /\ ev' = Append(ev, Ev("recv", "PUSH_REPLY", "err", 0))
               /\ Return("transport")
               /\ tunnel' = tunnel
          ELSE LET x == readPushReplyResult(r.m) IN
               /\ ev' = Append(ev, Ev("recv", "PUSH_REPLY", x.res,
                                      ReadPushResponse(r.m)))
               /\ Return(x.err)
               /\ tunnel' = IF x.err = "nil"
                            THEN [tunnel EXCEPT !.ip = ReadPushResponse(r.m)]
                            ELSE tunnel
    /\ UNCHANGED otherVars
    /\ UNCHANGED <<top, calls, connClosed, hasActiveKey, remoteSessionID,
                   sidRecorded, tlsUp, remoteKey, keysReady, readVars, histVars>>

\* ------------------------------------------------------------------ Write
\* Write: return m.data.WritePacket(m.conn, b), whatever the session's state.
Write ==
    /\ pc = "Write"
    /\ \E ok \in WriteOutcomes :
          /\ ev' = Append(ev, Ev("send", "DATA", W(ok), 0))
          /\ Return(IF ok THEN "nil" ELSE "transport")
    /\ UNCHANGED otherVars
    /\ UNCHANGED <<top, calls, connClosed, sessionVars, readVars, histVars>>

\* ------------------------------------------------------------------- Read
Plaintexts == UNION {[1..n -> Bytes] : n \in 0..MaxBuf}

\* The openvpn-ping magic (16 bytes in the code), which is one of the plaintexts.
pingPayload == <<2, 1>>

\* The packet-ids of the control packets the server sends in the data phase.
CtrlIds == {1}

\* What readPacket(m.conn) may return to handleIncomingPacket: an error, bytes
\* that do not parse, an ACK, a control packet (with its packet-id), a packet of
\* another opcode, a data packet whose bytes on the wire are the ping magic
\* ("ping": isPing(data) holds), or any other data packet, which
\* data.ReadPacket accepts, giving its plaintext, or rejects.  A ping of the
\* server travels encrypted like any payload: it is a "data" packet whose
\* plaintext is pingPayload.
Incoming ==
    IF connClosed THEN {[k |-> "err", ok |-> FALSE, plain |-> <<>>, id |-> 0]}
    ELSE [k : {"err", "malformed", "ack", "other", "ping"},
          ok : {FALSE}, plain : {<<>>}, id : {0}]
         \cup [k : {"control"}, ok : {FALSE}, plain : {<<>>}, id : CtrlIds]
         \cup [k : {"data"}, ok : BOOLEAN, plain : Plaintexts, id : {0}]

\* A handleIncomingPacket that buffers what data.ReadPacket rejected.
handleIncomingPacket_KeepRejected(p, buf) ==
    IF p.k = "data"
    THEN [data |-> p.ok, buf |-> buf \o p.plain, ping |-> FALSE]
    ELSE [data |-> FALSE, buf |-> buf, ping |-> (p.k = "ping")]

\* A handleIncomingPacket that reports an ACK as a packet of data.
handleIncomingPacket_AckReturns(p, buf) ==
    IF p.k = "ack"
    THEN [data |-> TRUE, buf |-> buf, ping |-> FALSE]
    ELSE IF p.k = "data" /\ p.ok
    THEN [data |-> TRUE, buf |-> buf \o p.plain, ping |-> FALSE]
    ELSE [data |-> FALSE, buf |-> buf, ping |-> (p.k = "ping")]

\* handleIncomingPacket on packet p with read buffer buf: whether it was a data
\* packet that was decrypted (the return value), the read buffer afterwards and
\* whether an openvpn-ping reply is written.
handleIncomingPacket(p, buf) ==
    IF p.k \in {"err", "malformed", "ack", "control", "other"}
    THEN [data |-> FALSE, buf |-> buf, ping |-> FALSE]
    ELSE IF p.k = "ping"
    THEN [data |-> FALSE, buf |-> buf, ping |-> TRUE]
    ELSE IF ~p.ok
    THEN [data |-> FALSE, buf |-> buf, ping |-> FALSE]
    ELSE [data |-> TRUE, buf |-> buf \o p.plain, ping |-> FALSE]

\* What handleIncomingPacket saw, for the record.
Seen(p) ==
    IF p.k # "data" THEN p.k
    ELSE IF ~p.ok THEN "rejected"
    ELSE IF p.plain = pingPayload THEN "pingplain"
    ELSE "data"

NPings(e) == Cardinality({i \in 1..Len(e) : e[i].what = "PING"})

\* One turn of Read's loop: handleIncomingPacket, and m.bufReader.Read(b) once it
\* returned true.
Read ==
    /\ pc = "Read"
    /\ \E p \in Incoming, ok \in WriteOutcomes :
          /\ (p.k = "err") => readErrs < MaxReadErrs
          /\ (p.k = "ping") => NPings(ev) < MaxPings
          /\ (p.k # "ping") => (ok = FALSE)
          /\ Len(delivered) + Len(bufReader) + Len(p.plain) <= MaxBuf
          /\ LET r == handleIncomingPacket(p, bufReader)
                 n == Min(dst, Len(r.buf))
             IN /\ lastIn' = Seen(p)
                /\ readErrs' = IF p.k = "err" THEN readErrs + 1 ELSE readErrs
                /\ ev' = IF r.ping THEN Append(ev, Ev("send", "PING", W(ok), 0))
                                   ELSE ev
                /\ unacked' = IF recording /\ p.k = "control"
                              THEN unacked \cup {p.id} ELSE unacked
                /\ accepted' = IF recording /\ p.k = "data" /\ p.ok
                                  /\ p.plain # pingPayload
                               THEN accepted \o p.plain ELSE accepted
                /\ IF r.data
                   THEN /\ lastRead' = SubSeq(r.buf, 1, n)
                        /\ delivered' = IF recording
                                        THEN delivered \o SubSeq(r.buf, 1, n)
                                        ELSE delivered
                        /\ bufReader' = SubSeq(r.buf, n + 1, Len(r.buf))
                        /\ Return(IF Len(r.buf) = 0 THEN "EOF" ELSE "nil")
                   ELSE /\ lastRead' = lastRead
                        /\ delivered' = delivered
                        /\ bufReader' = r.buf
                        /\ pc' = "Read"
                        /\ err' = err
    /\ UNCHANGED otherVars
    /\ UNCHANGED <<top, calls, connClosed, sessionVars, dst, recording, dropped>>

\* ------------------------------------------------------------ specification
Next ==
    \/ Call
    \/ ConnClose
    \/ Reset_SendHardReset
    \/ Reset_responseLost
    \/ Reset_readPacket
    \/ Reset_SendACK
    \/ Handshake_TLS
    \/ sendControlMessage
    \/ readAndLoadRemoteKey
    \/ InitDataWithRemoteKey_SetupKeys
    \/ sendPushRequest
    \/ readPushReply
    \/ Write
    \/ Read

Spec == Init /\ [][Next]_vars

SpecRec == InitRec /\ [][Next]_vars

\* ------------------------------------------------------------------ framing
\* The byte values the framed packets are made of.
FrameBytes == {0, 1, 255}

\* Lengths around the limits of one and of two length bytes.
LongLens == {255, 256, 257, 65535, 65536}

\* The packets framed: every packet over FrameBytes up to MaxFrameLen, and one
\* packet of each length in LongLens.
FramePackets ==
    UNION {[1..n -> FrameBytes] : n \in 0..MaxFrameLen}
    \cup {[i \in 1..n |-> 0] : n \in LongLens}

\* A toSizeFrame that writes the length low byte first.
toSizeFrame_LittleEndian(b) ==
    <<(Len(b) % 65536) % 256, (Len(b) % 65536) \div 256>> \o b

\* toSizeFrame: uint16(len(b)) as two bytes, big-endian, then b.
toSizeFrame(b) ==
    <<(Len(b) % 65536) \div 256, (Len(b) % 65536) % 256>> \o b

\* The receiver of a size-framed stream: two bytes of length, big-endian, then
\* that many bytes of packet.
unframe(f) == SubSeq(f, 3, 2 + (f[1] * 256 + f[2]))

InitFraming ==
    /\ newMuxer /\ recording = FALSE /\ rwOff /\ pingerOff
    /\ fpc = "packet"
    /\ fb \in FramePackets
    /\ framed = <<>>
    /\ unframed = <<>>

Frame ==
    /\ fpc = "packet"
    /\ framed' = toSizeFrame(fb)
    /\ fpc' = "framed"
    /\ UNCHANGED <<fb, unframed, muxVars, rwVars, pingerVars>>

Unframe ==
    /\ fpc = "framed"
    /\ unframed' = unframe(framed)
    /\ fpc' = "unframed"
    /\ UNCHANGED <<fb, framed, muxVars, rwVars, pingerVars>>

NextFraming == Frame \/ Unframe

SpecFraming == InitFraming /\ [][NextFraming]_vars

\* ------------------------------------------- Read and Write, concurrently
\* The data phase with one goroutine in Read and one in Write.  Both write to
\* the transport through m.data.WritePacket only: Write for each payload of the
\* caller, Read for each ping it answers (handleDataPing).
InitRW ==
    /\ newMuxer /\ recording = FALSE /\ frameOff /\ pingerOff
    /\ rwpc = [p \in Procs |-> "idle"]
    /\ wlock = "none"
    /\ dataPid = 0
    /\ loc = [p \in Procs |-> 0]
    /\ inWrite = {}
    /\ wire = <<>>
    /\ sends = [p \in Procs |-> 0]

At(p, from, to) == rwpc[p] = from /\ rwpc' = [rwpc EXCEPT ![p] = to]

\* Write(b) is called, or handleIncomingPacket saw a ping: m.data.WritePacket
\* is entered.
CallWritePacket(p) ==
    /\ At(p, "idle", "lock")
    /\ sends[p] < MaxSends
    /\ sends' = [sends EXCEPT ![p] = @ + 1]
    /\ UNCHANGED <<wlock, dataPid, loc, inWrite, wire, muxVars, frameVars,
                   pingerVars>>

\* A data handler that takes no lock.
LockFree_NoLock == TRUE

\* The lock of the outbound path is free.
LockFree == wlock = "none"

WritePacket_Lock(p) ==
    /\ At(p, "lock", "alloc")
    /\ LockFree
    /\ wlock' = p
    /\ UNCHANGED <<dataPid, loc, inWrite, wire, sends, muxVars, frameVars,
                   pingerVars>>

\* The packet-id of the packet: the session's counter is read ...
WritePacket_ReadPacketID(p) ==
    /\ At(p, "alloc", "incr")
    /\ loc' = [loc EXCEPT ![p] = dataPid]
    /\ UNCHANGED <<wlock, dataPid, inWrite, wire, sends, muxVars, frameVars,
                   pingerVars>>

\* ... and advanced.
WritePacket_NextPacketID(p) ==
    /\ At(p, "incr", "write")
    /\ dataPid' = loc[p] + 1
    /\ UNCHANGED <<wlock, loc, inWrite, wire, sends, muxVars, frameVars,
                   pingerVars>>

\* conn.Write(packet) begins ...
WritePacket_ConnWrite(p) ==
    /\ At(p, "write", "writing")
    /\ inWrite' = inWrite \cup {p}
    /\ UNCHANGED <<wlock, dataPid, loc, wire, sends, muxVars, frameVars,
                   pingerVars>>

\* ... and returns with the packet on the wire.
WritePacket_ConnWritten(p) ==
    /\ At(p, "writing", "unlock")
    /\ inWrite' = inWrite \ {p}
    /\ wire' = Append(wire, [by |-> p, id |-> loc[p]])
    /\ UNCHANGED <<wlock, dataPid, loc, sends, muxVars, frameVars,
                   pingerVars>>

WritePacket_Unlock(p) ==
    /\ At(p, "unlock", "idle")
    /\ wlock' = "none"
    /\ UNCHANGED <<dataPid, loc, inWrite, wire, sends, muxVars, frameVars,
                   pingerVars>>

NextRW ==
    \/ \E p \in Procs : CallWritePacket(p)
    \/ \E p \in Procs : WritePacket_Lock(p)
    \/ \E p \in Procs : WritePacket_ReadPacketID(p)
    \/ \E p \in Procs : WritePacket_NextPacketID(p)
    \/ \E p \in Procs : WritePacket_ConnWrite(p)
    \/ \E p \in Procs : WritePacket_ConnWritten(p)
    \/ \E p \in Procs : WritePacket_Unlock(p)

SpecRW == InitRW /\ [][NextRW]_vars

\* ------------------------------------------------------------------- pinger
\* The sequence numbers of a run, which also number its reading goroutines.
Seqs == 0..(Count - 1)

\* NewPinger and the start of Run: Dial has succeeded, nothing is sent yet, and
\* Run is about to start consumeData and the collecting goroutine.
InitPinger ==
    /\ newMuxer /\ recording = FALSE /\ frameOff /\ rwOff
    /\ Count \in 0..MaxCount
    /\ runI = 0
    /\ exited = FALSE
    /\ mu = <<>>
    /\ spc = [s \in Seqs |-> "none"]
    /\ cpc = [s \in Seqs |-> "none"]
    /\ net = {}
    /\ cdI = 0
    /\ rpc = [r \in Seqs |-> "none"]
    /\ stats = 0
    /\ colI = 0
    /\ packetsSent = 0
    /\ packetsRecv = 0
    /\ ppc = "run"
    /\ loss = 0

\* Run's loop: go p.sendPayload(i)
Run_goSendPayload ==
    /\ ~exited
    /\ runI < Count
    /\ spc' = [spc EXCEPT ![runI] = "Lock"]
    /\ runI' = runI + 1
    /\ UNCHANGED <<Count, exited, mu, cpc, net, cdI, rpc, stats, colI,
                   packetsSent, packetsRecv, ppc, loss, muxVars, frameVars,
                   rwVars>>

\* Run returns after its loop, RunPinger and main return, and the process ends
\* with whatever goroutines are still running.
Run_return ==
    /\ ~exited
    /\ runI = Count
    /\ exited' = TRUE
    /\ UNCHANGED <<Count, runI, mu, spc, cpc, net, cdI, rpc, stats, colI,
                   packetsSent, packetsRecv, ppc, loss, muxVars, frameVars,
                   rwVars>>

\* sendPayload: p.mu.Lock()
sendPayload_Lock(s) ==
    /\ ~exited
    /\ spc[s] = "Lock"
    /\ mu = <<>>
    /\ mu' = <<"sendPayload", s>>
    /\ spc' = [spc EXCEPT ![s] = "go"]
    /\ UNCHANGED <<Count, runI, exited, cpc, net, cdI, rpc, stats, colI,
                   packetsSent, packetsRecv, ppc, loss, muxVars, frameVars,
                   rwVars>>

\* sendPayload: p.ts[s] = now; go p.craftAndSendICMP(..., s)
sendPayload_goCraft(s) ==
    /\ ~exited
    /\ spc[s] = "go"
    /\ cpc' = [cpc EXCEPT ![s] = "WriteTo"]
    /\ spc' = [spc EXCEPT ![s] = "incr"]
    /\ UNCHANGED <<Count, runI, exited, mu, net, cdI, rpc, stats, colI,
                   packetsSent, packetsRecv, ppc, loss, muxVars, frameVars,
                   rwVars>>

\* sendPayload: p.packetsSent++
sendPayload_Incr(s) ==
    /\ ~exited
    /\ spc[s] = "incr"
    /\ packetsSent' = packetsSent + 1
    /\ spc' = [spc EXCEPT ![s] = "Unlock"]
    /\ UNCHANGED <<Count, runI, exited, mu, cpc, net, cdI, rpc, stats, colI,
                   packetsRecv, ppc, loss, muxVars, frameVars, rwVars>>

\* sendPayload: the deferred p.mu.Unlock()
sendPayload_Unlock(s) ==
    /\ ~exited
    /\ spc[s] = "Unlock"
    /\ mu' = <<>>
    /\ spc' = [spc EXCEPT ![s] = "done"]
    /\ UNCHANGED <<Count, runI, exited, cpc, net, cdI, rpc, stats, colI,
                   packetsSent, packetsRecv, ppc, loss, muxVars, frameVars,
                   rwVars>>

\* craftAndSendICMP: p.conn.WriteTo(buf, nil); the target's echo reply reaches
\* the client or it does not.
craftAndSendICMP(s) ==
    /\ ~exited
    /\ cpc[s] = "WriteTo"
    /\ cpc' = [cpc EXCEPT ![s] = "done"]
    /\ \E replied \in BOOLEAN :
          net' = IF replied THEN net \cup {s} ELSE net
    /\ UNCHANGED <<Count, runI, exited, mu, spc, cdI, rpc, stats, colI,
                   packetsSent, packetsRecv, ppc, loss, muxVars, frameVars,
                   rwVars>>

\* consumeData's loop: one more goroutine that reads one packet.
consumeData ==
    /\ ~exited
    /\ cdI < Count
    /\ rpc' = [rpc EXCEPT ![cdI] = "ReadFrom"]
    /\ cdI' = cdI + 1
    /\ UNCHANGED <<Count, runI, exited, mu, spc, cpc, net, stats, colI,
                   packetsSent, packetsRecv, ppc, loss, muxVars, frameVars,
                   rwVars>>

\* p.conn.ReadFrom(d) and the checks of handleIncoming: a packet that does not
\* decode, or has the wrong addresses or ID, ends the goroutine.
reader_ReadFrom(r) ==
    /\ ~exited
    /\ rpc[r] = "ReadFrom"
    /\ \E s \in net, valid \in BOOLEAN :
          /\ net' = net \ {s}
          /\ rpc' = [rpc EXCEPT ![r] = IF valid THEN "getInterval" ELSE "done"]
    /\ UNCHANGED <<Count, runI, exited, mu, spc, cpc, cdI, stats, colI,
                   packetsSent, packetsRecv, ppc, loss, muxVars, frameVars,
                   rwVars>>

\* getInterval: p.mu.Lock()
getInterval_Lock(r) ==
    /\ ~exited
    /\ rpc[r] = "getInterval"
    /\ mu = <<>>
    /\ mu' = <<"getInterval", r>>
    /\ rpc' = [rpc EXCEPT ![r] = "Unlock"]
    /\ UNCHANGED <<Count, runI, exited, spc, cpc, net, cdI, stats, colI,
                   packetsSent, packetsRecv, ppc, loss, muxVars, frameVars,
                   rwVars>>

\* getInterval: the deferred p.mu.Unlock()
getInterval_Unlock(r) ==
    /\ ~exited
    /\ rpc[r] = "Unlock"
    /\ mu' = <<>>
    /\ rpc' = [rpc EXCEPT ![r] = "stats"]
    /\ UNCHANGED <<Count, runI, exited, spc, cpc, net, cdI, stats, colI,
                   packetsSent, packetsRecv, ppc, loss, muxVars, frameVars,
                   rwVars>>

\* handleIncoming: p.stats <- st{rtt, ip.TTL}; the channel holds Count values.
handleIncoming_stats(r) ==
    /\ ~exited
    /\ rpc[r] = "stats"
    /\ stats < Count
    /\ stats' = stats + 1
    /\ rpc' = [rpc EXCEPT ![r] = "done"]
    /\ UNCHANGED <<Count, runI, exited, mu, spc, cpc, net, cdI, colI,
                   packetsSent, packetsRecv, ppc, loss, muxVars, frameVars,
                   rwVars>>

\* The collecting goroutine: st := <-p.stats; p.st = append(p.st, st);
\* p.packetsRecv++
collect ==
    /\ ~exited
    /\ colI < Count
    /\ stats > 0
    /\ stats' = stats - 1
    /\ packetsRecv' = packetsRecv + 1
    /\ colI' = colI + 1
    /\ UNCHANGED <<Count, runI, exited, mu, spc, cpc, net, cdI, rpc,
                   packetsSent, ppc, loss, muxVars, frameVars, rwVars>>

\* The loss percentage as printStats computes it, in Go's integer division.
Loss(recv, sent) == (recv \div sent) \div 100

\* printStats: the division panics when packetsSent is 0; the summary is
\* printed otherwise.
printStats ==
    /\ ppc = "run"
    /\ IF packetsSent = 0
       THEN ppc' = "panic" /\ loss' = loss
       ELSE ppc' = "printed" /\ loss' = Loss(packetsRecv, packetsSent)
    /\ UNCHANGED <<Count, runI, exited, mu, spc, cpc, net, cdI, rpc, stats,
                   colI, packetsSent, packetsRecv, muxVars, frameVars, rwVars>>

\* The collecting goroutine after its loop: p.Shutdown()
Shutdown ==
    /\ ~exited
    /\ colI = Count
    /\ printStats

NextPinger ==
    \/ Run_goSendPayload
    \/ Run_return
    \/ \E s \in Seqs : sendPayload_Lock(s)
    \/ \E s \in Seqs : sendPayload_goCraft(s)
    \/ \E s \in Seqs : sendPayload_Incr(s)
    \/ \E s \in Seqs : sendPayload_Unlock(s)
    \/ \E s \in Seqs : craftAndSendICMP(s)
    \/ consumeData
    \/ \E r \in Seqs : reader_ReadFrom(r)
    \/ \E r \in Seqs : getInterval_Lock(r)
    \/ \E r \in Seqs : getInterval_Unlock(r)
    \/ \E r \in Seqs : handleIncoming_stats(r)
    \/ collect
    \/ Shutdown

SpecPinger == InitPinger /\ [][NextPinger]_vars

\* printStats on its own, as the exported Shutdown reaches it at any moment of
\* a run: every pair of counters with 0 <= packetsRecv <= packetsSent and
\* 0 < packetsSent <= MaxSent.
InitLoss ==
    /\ newMuxer /\ recording = FALSE /\ frameOff /\ rwOff
    /\ Count = 0 /\ runI = 0 /\ exited = TRUE /\ mu = <<>>
    /\ spc = <<>> /\ cpc = <<>> /\ net = {} /\ cdI = 0 /\ rpc = <<>>
    /\ stats = 0 /\ colI = 0
    /\ packetsSent \in 1..MaxSent
    /\ packetsRecv \in 0..packetsSent
    /\ ppc = "run"
    /\ loss = 0

NextLoss == printStats

SpecLoss == InitLoss /\ [][NextLoss]_vars

\* ------------------------------------------------------------------ claims
Idx == 1..Len(ev)

InHandshake == top = "Handshake"
Returned == pc = "done" /\ top # "none"

\* Both KeySources are present and the key schedule has run.
KeysDerived == hasActiveKey /\ remoteKey # 0 /\ keysReady

\* The steps whose success C1 asks for, when they failed.
FailedStep(e) ==
    /\ e.what \in {"HARD_RESET_SERVER", "TLS", "SERVER_CONTROL_MESSAGE",
                   "SetupKeys", "PUSH_REPLY"}
    /\ e.res # "ok"

\* C1: Handshake returns nil only when the session is Ready: the server's
\* session id was recorded from its hard-reset, TLS is up, the remote KeySource
\* is in the active key, SetupKeys succeeded and the tunnel IP of the push reply
\* is stored; and a Handshake in which one of these steps failed returns an error.
C1_HandshakeNilOnlyWhenReady ==
    (InHandshake /\ Returned) =>
        /\ (err = "nil") =>
              /\ \E i \in Idx : /\ ev[i].what = "HARD_RESET_SERVER"
                                /\ ev[i].res = "ok"
                                /\ ev[i].v = remoteSessionID
              /\ sidRecorded
              /\ tlsUp
              /\ \E i \in Idx : /\ ev[i].what = "SERVER_CONTROL_MESSAGE"
                                /\ ev[i].res = "ok"
                                /\ ev[i].v = remoteKey
              /\ KeysDerived
              /\ ev[Len(ev)].what = "PUSH_REPLY"
              /\ ev[Len(ev)].res = "ok"
              /\ ev[Len(ev)].v = tunnel.ip
        /\ (\E i \in Idx : FailedStep(ev[i])) => err \notin {"nil", "none"}

C1_Witness == InHandshake /\ Returned /\ err = "nil"

\* The order of the protocol events of one Handshake.
HandshakeOrder ==
    <<"HARD_RESET_CLIENT", "HARD_RESET_SERVER", "ACK_V1", "TLS",
      "CONTROL_MESSAGE", "SERVER_CONTROL_MESSAGE", "SetupKeys",
      "PUSH_REQUEST", "PUSH_REPLY">>

\* C2: within one Handshake the events occur in the order send hard-reset,
\* receive hard-reset, send ACK, TLS, send control message, receive the remote
\* control message, SetupKeys, send push-request, receive push-reply, each
\* starting only after the previous one succeeded.
C2_OrderedAndGated ==
    InHandshake =>
        /\ Len(ev) <= Len(HandshakeOrder)
        /\ \A i \in Idx : ev[i].what = HandshakeOrder[i]
        /\ \A i \in Idx : i > 1 => ev[i - 1].res = "ok"

\* C3: in Reset, an accepted hard-reset is followed at once by the ACK, before
\* any TLS packet, and an ACK is written only after an accepted hard-reset.
C3_AckRightAfterAccept ==
    (top \in {"Handshake", "Reset"}) =>
        \A i \in Idx :
            /\ (ev[i].what = "HARD_RESET_SERVER" /\ ev[i].res = "ok") =>
                  IF i < Len(ev) THEN ev[i + 1].what = "ACK_V1" /\ ev[i + 1].k = "send"
                                 ELSE pc = "SendACK"
            /\ (ev[i].what = "ACK_V1") =>
                  /\ i > 1
                  /\ ev[i - 1].what = "HARD_RESET_SERVER"
                  /\ ev[i - 1].res = "ok"
            /\ (ev[i].what = "HARD_RESET_SERVER" /\ ev[i].res # "ok") =>
                  (i = Len(ev) /\ pc = "done" /\ err \notin {"nil", "none"})

C3_Witness ==
    /\ InHandshake
    /\ \E i \in Idx : /\ i + 2 <= Len(ev)
                      /\ ev[i].what = "HARD_RESET_SERVER" /\ ev[i].res = "ok"
                      /\ ev[i + 1].what = "ACK_V1"
                      /\ ev[i + 2].what = "TLS" /\ ev[i + 2].k = "send"

\* C4: once session.RemoteSessionID has been recorded from a hard-reset
\* response, no operation changes it.
C4_RemoteSessionIDStable ==
    [][sidRecorded => remoteSessionID' = remoteSessionID]_vars

\* C5: Write hands payload to the data channel only when both KeySources are
\* present and SetupKeys has succeeded.
C5_WriteOnlyWhenReady ==
    (top = "Write") => \A i \in Idx : (ev[i].what = "DATA") => KeysDerived

\* C6: a Handshake in which the server sent AUTH_FAILED over TLS returns the
\* AuthFailed error, wherever the message was read.
C6_AuthFailedSurfaces ==
    (InHandshake /\ Returned
       /\ \E i \in Idx : ev[i].k = "recv" /\ ev[i].res = "AUTH_FAILED")
    => err = "errBadAuth"

\* C7: a transport error at any step of the Handshake ends it: Handshake
\* returns an error and the failed step is its last.
C7_TransportErrorFails ==
    InHandshake =>
        \A i \in Idx :
            (ev[i].k \in {"send", "recv"} /\ ev[i].res = "err") =>
                (i = Len(ev) /\ pc = "done" /\ err \notin {"nil", "none"})

\* The errors of Handshake that are not transport errors.
NonTransient ==
    {"ErrBadHandshake", "ErrBadTLSHandshake", "errBadTLSConf",
     "errControlMessage", "errBadControlMessage", "errBadAuth",
     "errBadServerReply", "errSetupKeys"}

\* C8: when Handshake returns an error that is not a transport error, the
\* transport has been closed.
C8_ClosedOnAbort ==
    (InHandshake /\ Returned /\ err \in NonTransient) => connClosed

\* C9: a Read whose transport read failed has returned, with the transport
\* error as its result.
C9_ReadSurfacesTransportError ==
    (top = "Read" /\ readErrs > 0) => (pc = "done" /\ err = "transport")

\* C10: a data packet that data.ReadPacket rejects leaves the read buffer as it
\* was, does not make Read return, and Read goes on to the next packet.
C10_RejectedDropped ==
    [][(pc = "Read" /\ lastIn' = "rejected") =>
          (bufReader' = bufReader /\ pc' = "Read" /\ err' = err
             /\ lastRead' = lastRead)]_vars

C10_Witness == top = "Read" /\ pc = "Read" /\ lastIn = "rejected"

\* ------------------------------------------------- claims on the data phase
Last(e) == e[Len(e)]

\* A step of Read's loop (the other step possible at pc = "Read" is ConnClose).
ReadStep == pc = "Read" /\ connClosed' = connClosed /\ vars' # vars

\* C11: once the data keys are set up, a data packet whose plaintext is the
\* ping magic, whether its bytes on the wire are the magic or its decrypted
\* plaintext is, makes Read write exactly one ping to the transport, adds
\* nothing to the read buffer and does not make Read return.
C11_PingReflex ==
    [][(ReadStep /\ keysReady /\ lastIn' \in {"ping", "pingplain"}) =>
          (NPings(ev') = NPings(ev) + 1 /\ bufReader' = bufReader
             /\ pc' = "Read")]_vars

\* The ACK list of an outbound packet of the muxer: SendACK carries the one id
\* it is given; the hard-reset of a new session acknowledges nothing.
AckList(e) == IF e.what = "ACK_V1" THEN {e.v} ELSE {}

\* C12: when the client sends its next control or ACK packet, the ACK list of
\* that packet holds the id of every control packet read and not yet
\* acknowledged.
C12_AckEveryControl ==
    [][(/\ Len(ev') = Len(ev) + 1
        /\ Last(ev').k = "send"
        /\ Last(ev').what \in {"HARD_RESET_CLIENT", "ACK_V1"}) =>
          (unacked \subseteq AckList(Last(ev')))]_vars

NHardResets(e) ==
    Cardinality({i \in 1..Len(e) : e[i].what = "HARD_RESET_CLIENT"})

\* C13: when the transport lost the server's response and Reset then accepts a
\* response, the client has sent its hard-reset exactly twice: the first, and
\* the resend that this response answers.
C13_HardResetRetransmitted ==
    [][(pc = "readPacket" /\ dropped /\ pc' = "SendACK") =>
          (NHardResets(ev) = 2)]_vars

IsPrefix(a, b) == Len(a) <= Len(b) /\ SubSeq(b, 1, Len(a)) = a

\* C14: the bytes the Reads have returned so far are a prefix of the
\* plaintexts of the accepted data packets in arrival order, pings left out.
C14_DeliveredInOrder == IsPrefix(delivered, accepted)

\* C19 as stated: Read waits for a packet only while the read buffer is empty:
\* plaintext left in the buffer is returned without another read of the
\* transport.
C19_BufferedReadReturnsAtOnce ==
    (top = "Read" /\ pc = "Read") => (bufReader = <<>>)

\* C19, amended: Read returns only in the turn of its loop that accepted a data
\* packet; what an earlier Read left in the buffer comes out then, ahead of the
\* plaintext of that packet.
C19_ReadWaitsForDataPacket ==
    [][(top = "Read" /\ pc = "Read" /\ pc' = "done") =>
          /\ lastIn' \in {"data", "pingplain"}
          /\ IsPrefix(bufReader, lastRead' \o bufReader')
          /\ Len(lastRead') = Min(dst, Len(lastRead') + Len(bufReader'))]_vars

\* A Read called with plaintext left in the buffer has looked at a packet and
\* waits for the next one.
C19_Witness ==
    top = "Read" /\ pc = "Read" /\ bufReader # <<>> /\ lastIn = "rejected"

\* ---------------------------------------------- claims on tunnel and keys
\* C16 as stated: the tunnel is written once, by the push reply, to a tunnel
\* nothing has written before.
C16_TunnelOnceAtPushReply ==
    [][(tunnel' # tunnel) =>
          (pc = "readPushReply" /\ tunnel = [ip |-> 0, opts |-> 0])]_vars

\* C16, amended: the tunnel changes only inside InitDataWithRemoteKey:
\* readAndLoadRemoteKey stores the remote options of the server's control
\* message and leaves the IP alone, readPushReply stores the IP of a push reply
\* it accepted and leaves the options alone; no other step changes it.
C16_TunnelWrittenByInitData ==
    [][(tunnel' # tunnel) =>
          \/ /\ pc = "readAndLoadRemoteKey"
             /\ pc' = "SetupKeys"
             /\ tunnel'.ip = tunnel.ip
          \/ /\ pc = "readPushReply"
             /\ pc' = "done" /\ err' = "nil"
             /\ tunnel'.opts = tunnel.opts
             /\ Last(ev').what = "PUSH_REPLY" /\ Last(ev').res = "ok"
             /\ Last(ev').v = tunnel'.ip]_vars

C16_Witness ==
    /\ top \in {"Handshake", "InitDataWithRemoteKey"}
    /\ pc = "done" /\ err = "nil"
    /\ tunnel.opts # 0 /\ tunnel.ip # 0

\* C17: addRemoteKey is applied to the active key only while the slot holds no
\* remote key and SetupKeys has not used it.
C17_RemoteKeyAddedOnce ==
    [][(pc = "readAndLoadRemoteKey" /\ pc' = "SetupKeys") =>
          (remoteKey = 0 /\ ~keysReady)]_vars

\* C20: a Reset that ends before its ACK, because the read of the transport
\* failed or ParseHardReset rejected the response, returns an error, has sent
\* no ACK, and no step of it has touched session.RemoteSessionID.
C20_FailedResetLeavesSession ==
    [][(pc \in {"SendHardReset", "readPacket"} /\ pc' # "SendACK") =>
          /\ remoteSessionID' = remoteSessionID
          /\ sidRecorded' = sidRecorded
          /\ (pc' = "done") =>
                /\ err' \notin {"nil", "none"}
                /\ \A i \in 1..Len(ev') : ev'[i].what # "ACK_V1"]_vars

C20_Witness ==
    /\ top = "Reset" /\ pc = "done" /\ err = "ErrBadHandshake"
    /\ sidRecorded /\ remoteSessionID # 0
    /\ ev # <<>> /\ Last(ev).what = "HARD_RESET_SERVER" /\ Last(ev).res # "ok"


\* ------------------------------------------------------- claims on framing
\* C18: for a packet of at most 65535 bytes, toSizeFrame returns two bytes
\* that are its length as a big-endian uint16, then the packet itself; and the
\* receiver that reads the length and then that many bytes gets the packet back.
C18_FrameRoundTrip ==
    (fpc \in {"framed", "unframed"} /\ Len(fb) <= 65535) =>
        /\ Len(framed) = Len(fb) + 2
        /\ framed[1] \in 0..255 /\ framed[2] \in 0..255
        /\ framed[1] * 256 + framed[2] = Len(fb)
        /\ SubSeq(framed, 3, Len(framed)) = fb
        /\ (fpc = "unframed") => (unframed = fb)

C18_Witness == fpc = "unframed" /\ Len(fb) = 65535 /\ unframed = fb

\* ------------------------------------ claims on Read and Write, concurrently
\* The goroutines between the taking of a packet-id and the end of the
\* transport's Write.
InWritePacket ==
    {p \in Procs : rwpc[p] \in {"alloc", "incr", "write", "writing", "unlock"}}

C21_StatsHaveSentPackets ==
    (ppc # "run") => (ppc = "printed" /\ packetsSent > 0
                        /\ packetsSent >= packetsRecv)

=============================================================================
